---- MODULE Spec2Model ----
(***************************************************************************)
(* The authenticated HTTP client of frontend/src/lib/api.ts: the axios     *)
(* instance `api`, its request interceptor (bearer token attachment) and   *)
(* its response interceptor (401 -> refresh -> replay), together with the  *)
(* session credentials of the auth store it reads and writes.              *)
(*                                                                         *)
(* JavaScript runs each handler to its next await without interruption, so *)
(* an action is one such run: a call through the client up to the network *)
(* send, the error handler up to `await axios.post(...)`, the continuation *)
(* after the refresh call up to the replay's send.  Between two actions    *)
(* any other call, a login or a logout can run.  The server is free to     *)
(* answer every network exchange with any status.                          *)
(***************************************************************************)
EXTENDS Integers, FiniteSets, Sequences, TLC

\* ---------------------------------------------------------------- bounds
NReq == 2          \* calls made through the client
NTok == 2          \* distinct token values the server hands out
CapCount == 3      \* the exchange counters saturate here (observers only)

Reqs == 1..NReq
Tokens == 1..NTok
NoToken == 0                       \* null / undefined / '' : a falsy token
TokenOrNone == Tokens \cup {NoToken}
\* config.headers.Authorization: NoHeader when it is not set, else the token t
\* of its value `Bearer ${t}` (NoToken for a falsy t)
NoHeader == -1
Headers == TokenOrNone \cup {NoHeader}

\* What a network exchange can end with: a 2xx response, an error response
\* (401, or 500 standing for every other non-2xx status), or a transport
\* error, where error.response is undefined (NoResponse).
Unauthorized == 401
ServerError == 500
NoResponse == 0
OkStatus == 200
ErrorStatuses == {NoResponse, Unauthorized, ServerError}

VARIABLES
    accessToken,      \* useAuthStore.getState().accessToken
    refreshToken,     \* useAuthStore.getState().refreshToken
    location,         \* the page shown: window.location.href / router.push
    pc,               \* per call: where its promise chain is suspended
    retry,            \* per call: originalRequest._retry
    Authorization,    \* per call: config.headers.Authorization (the token after "Bearer ")
    localRefresh,     \* per call: the handler's local `refreshToken` (line 36)
    access,           \* per call: the handler's local `access` (line 46)
    refreshAuthorization,  \* per call: the Authorization header of its refresh call
    outcome,          \* per call: what the caller's promise settled with
    nRefresh,         \* per call: POSTs to /api/auth/refresh/ made for it
    nDispatch         \* per call: times the request was put on the wire

session == [accessToken |-> accessToken, refreshToken |-> refreshToken]
vars == <<accessToken, refreshToken, location, pc, retry, Authorization,
          localRefresh, access, refreshAuthorization, outcome, nRefresh,
          nDispatch>>

\* ------------------------------------------------------- values and helpers
Pending == [kind |-> "pending", src |-> "none", status |-> NoResponse]
\* the response of exchange `src` ("initial" or "replay")
Resolved(src, status) == [kind |-> "resolved", src |-> src, status |-> status]
\* an error object: the AxiosError of exchange `src` ("initial", "replay",
\* "refresh"), or the synthetic Error('No refresh token') (src "synthetic")
Rejected(src, status) == [kind |-> "rejected", src |-> src, status |-> status]
NoRefreshTokenError == Rejected("synthetic", NoResponse)

Bump(n) == IF n < CapCount THEN n + 1 ELSE n

\* which exchange of call r is on the wire
Exchange(r) == IF pc[r] = "replayed" THEN "replay" ELSE "initial"

\* ------------------------------------------------------------ auth store
\* login(user, access, refresh), setTokens(access, refresh), logout()
login(a, f) == [accessToken |-> a, refreshToken |-> f]
setTokens(a, f) == [accessToken |-> a, refreshToken |-> f]
logout == [accessToken |-> NoToken, refreshToken |-> NoToken]
\* set(...) of the store: the next session is s
Store(s) == accessToken' = s.accessToken /\ refreshToken' = s.refreshToken

\* ------------------------------------------------------ request interceptor
\* a hook that leaves the config as it came
RequestHook_KeepConfig(h, token) == h

\* a hook that sets the header without testing the token
RequestHook_Unconditional(h, token) == token

\* api.interceptors.request.use: h is the header the config already has.
RequestHook(h, token) == IF token # NoToken THEN token ELSE h

\* the guard without its _retry half
ShouldRecover_IgnoreRetry(status, retried) == status = Unauthorized

\* the guard without its status half
ShouldRecover_AnyError(status, retried) == ~retried

\* ----------------------------------------------------- response interceptor
\* line 32: error.response?.status === 401 && !originalRequest._retry
ShouldRecover(status, retried) == status = Unauthorized /\ ~retried

TypeOK ==
    /\ accessToken \in TokenOrNone
    /\ refreshToken \in TokenOrNone
    /\ location \in {"/register", "/onboarding", "/login"}
    /\ pc \in [Reqs -> {"idle", "sent", "refreshing", "replayed", "done"}]
    /\ retry \in [Reqs -> BOOLEAN]
    /\ Authorization \in [Reqs -> Headers]
    /\ localRefresh \in [Reqs -> TokenOrNone]
    /\ access \in [Reqs -> TokenOrNone]
    /\ refreshAuthorization \in [Reqs -> Headers]
    /\ nRefresh \in [Reqs -> 0..CapCount]
    /\ nDispatch \in [Reqs -> 0..CapCount]

\* ------------------------------------------------ the pages and the stores
\* The components that call the client: the dashboard layout's auth check,
\* the onboarding wizard, and the workspace store.  The client's actions
\* leave their state alone.
VARIABLES
    user,             \* the argument of the last setUser call (auth store)
    loading,          \* the auth store's isLoading, as setLoading leaves it
    handled,          \* per call: checkAuth has resumed after `await authApi.me()`
    deps,             \* DashboardLayout: the accessToken of the effect's last run
    currentStep,      \* OnboardingPage state
    isLoading,        \* OnboardingPage state
    apiKey,           \* OnboardingPage state
    telegramSelected, \* OnboardingPage: selectedChannels.includes('telegram')
    telegramToken,    \* OnboardingPage state
    handler,          \* OnboardingPage: the call its async handler awaits
    keyData,          \* handleNext: the key it sent with updateApiKeys
    calls,            \* handleDeploy: the calls of its last run, with their results
    savedKey,         \* server: the API key saved for the account
    created,          \* server: workspaces created for the account
    workspaces,       \* useWorkspaceStore state
    currentWorkspace, \* useWorkspaceStore state
    lastOp            \* useWorkspaceStore: the operation called last

callVars == <<pc, retry, Authorization, localRefresh, access,
              refreshAuthorization, outcome, nRefresh, nDispatch>>
layoutVars == <<loading, handled, deps>>
wizardVars == <<currentStep, isLoading, apiKey, telegramSelected, telegramToken,
                handler, keyData, calls, savedKey, created>>
storeVars == <<workspaces, currentWorkspace, lastOp>>
pageVars == <<user, layoutVars, wizardVars, storeVars>>
allVars == <<vars, pageVars>>

NoUser == "none"                   \* user: null
Me == "me"                         \* the body of a 2xx answer of /auth/me/
Unmounted == -2                    \* deps before the effect's first run
NoKey == ""                        \* '' : a falsy string
Null == [null |-> TRUE]            \* currentWorkspace: null

\* the auth store and the layout before the layout's first effect
LayoutInit ==
    /\ user = NoUser
    /\ loading = TRUE
    /\ handled = [r \in Reqs |-> FALSE]
    /\ deps = Unmounted

\* OnboardingPage: the useState initial values, on a new account
WizardInit ==
    /\ currentStep = 0
    /\ isLoading = FALSE
    /\ apiKey = NoKey
    /\ telegramSelected = FALSE
    /\ telegramToken = NoKey
    /\ handler = "idle"
    /\ keyData = NoKey
    /\ calls = <<>>
    /\ savedKey = NoKey
    /\ created = 0

\* useWorkspaceStore: create(...) initial state
StoreInit ==
    /\ workspaces = <<>>
    /\ currentWorkspace = Null
    /\ lastOp = "create"

Init ==
    /\ accessToken = NoToken
    /\ refreshToken = NoToken
    /\ location = "/register"
    /\ pc = [r \in Reqs |-> "idle"]
    /\ retry = [r \in Reqs |-> FALSE]
    /\ Authorization = [r \in Reqs |-> NoHeader]
    /\ localRefresh = [r \in Reqs |-> NoToken]
    /\ access = [r \in Reqs |-> NoToken]
    /\ refreshAuthorization = [r \in Reqs |-> NoHeader]
    /\ outcome = [r \in Reqs |-> Pending]
    /\ nRefresh = [r \in Reqs |-> 0]
    /\ nDispatch = [r \in Reqs |-> 0]
    /\ LayoutInit /\ WizardInit /\ StoreInit

\* ------------------------------------------------------------------ actions
\* RegisterPage.onSubmit after authApi.register resolved (the login page does
\* the same): login(user, access, refresh); router.push('/onboarding').
Login(a, f) ==
    /\ Store(login(a, f))
    /\ location' = "/onboarding"
    /\ UNCHANGED <<pc, retry, Authorization, localRefresh, refreshAuthorization, access, outcome,
                   nRefresh, nDispatch>>

\* An explicit logout() of the store.
Logout ==
    /\ Store(logout)
    /\ UNCHANGED <<location, pc, retry, Authorization, localRefresh, refreshAuthorization, access,
                   outcome, nRefresh, nDispatch>>

\* api.get/post/... : a fresh config goes through the request interceptor
\* and onto the wire.
Send(r) ==
    /\ pc[r] = "idle"
    /\ Authorization' = [Authorization EXCEPT ![r] = RequestHook(NoHeader, accessToken)]
    /\ nDispatch' = [nDispatch EXCEPT ![r] = Bump(@)]
    /\ pc' = [pc EXCEPT ![r] = "sent"]
    /\ UNCHANGED <<accessToken, refreshToken, location, retry, localRefresh, refreshAuthorization,
                   access, outcome, nRefresh>>

\* The caller's promise settles with o.  The call's config object and the
\* handler's locals are unreachable from then on.
Settle(r, o) ==
    /\ outcome' = [outcome EXCEPT ![r] = o]
    /\ pc' = [pc EXCEPT ![r] = "done"]
    /\ Authorization' = [Authorization EXCEPT ![r] = NoHeader]
    /\ localRefresh' = [localRefresh EXCEPT ![r] = NoToken]
    /\ access' = [access EXCEPT ![r] = NoToken]
    /\ UNCHANGED refreshAuthorization

\* a success handler whose body is a block: (response) => { response }
ResponseSuccess_ReturnsNothing(r) ==
    /\ pc[r] \in {"sent", "replayed"}
    /\ Settle(r, Resolved(Exchange(r), NoResponse))
    /\ UNCHANGED <<accessToken, refreshToken, location, retry, nRefresh, nDispatch>>

\* (response) => response
ResponseSuccess(r) ==
    /\ pc[r] \in {"sent", "replayed"}
    /\ Settle(r, Resolved(Exchange(r), OkStatus))
    /\ UNCHANGED <<accessToken, refreshToken, location, retry, nRefresh, nDispatch>>

\* a catch block that rejects without logging out
CatchRefreshError_NoLogout(r, e) ==
    /\ Settle(r, e)
    /\ location' = "/login"
    /\ UNCHANGED <<accessToken, refreshToken>>

\* a catch block that rejects without sending the user to /login
CatchRefreshError_NoRedirect(r, e) ==
    /\ Store(logout)
    /\ Settle(r, e)
    /\ UNCHANGED location

\* a catch block that logs out and then tries the request again
CatchRefreshError_Retry(r, e) ==
    /\ Store(logout)
    /\ location' = "/login"
    /\ pc' = [pc EXCEPT ![r] = "replayed"]
    /\ UNCHANGED <<outcome, Authorization, localRefresh, refreshAuthorization, access>>

\* catch (refreshError) { logout(); window.location.href = '/login';
\*                        return Promise.reject(refreshError) }
CatchRefreshError(r, e) ==
    /\ Store(logout)
    /\ location' = "/login"
    /\ Settle(r, e)

\* a fall-through that logs the user out before rejecting
PassThrough_Logout(r, e) ==
    /\ Settle(r, e)
    /\ Store(logout)
    /\ location' = "/login"

\* return Promise.reject(error)
PassThrough(r, e) ==
    /\ Settle(r, e)
    /\ UNCHANGED <<accessToken, refreshToken, location>>

\* a refresh call made with api.post, as authApi.refresh makes it: the request
\* interceptor attaches the session's token
RefreshCallHeader_ThroughApi(token) == RequestHook(NoHeader, token)

\* lines 42-44: axios.post on the axios module itself, not on the instance
\* `api`: no interceptor of `api` sees the call, and it sets no header
RefreshCallHeader(token) == NoHeader

\* a handler that forgets to mark the request
MarkRetried_Skip(r) == retry

\* a handler that keeps the mark on the instance's defaults, which every
\* config is built from
MarkRetried_OnDefaults(r) == [q \in Reqs |-> TRUE]

\* line 33: originalRequest._retry = true
MarkRetried(r) == [retry EXCEPT ![r] = TRUE]

\* a handler that does not look at the refresh token before using it
MissingRefreshToken_Never(t) == FALSE

\* line 37: if (!refreshToken) throw new Error('No refresh token')
MissingRefreshToken(t) == t = NoToken

\* a handler that shares a refresh call already in flight instead of making
\* its own
ResponseError_Coalesced(r, s) ==
    /\ pc[r] \in {"sent", "replayed"}
    /\ IF ShouldRecover(s, retry[r])
       THEN /\ retry' = MarkRetried(r)
            /\ IF MissingRefreshToken(refreshToken)
               THEN /\ CatchRefreshError(r, NoRefreshTokenError)
                    /\ UNCHANGED nRefresh
               ELSE /\ localRefresh' = [localRefresh EXCEPT ![r] = refreshToken]
                    /\ refreshAuthorization' =
                          [refreshAuthorization EXCEPT ![r] = RefreshCallHeader(accessToken)]
                    /\ nRefresh' = IF \E q \in Reqs \ {r} : pc[q] = "refreshing"
                                   THEN nRefresh
                                   ELSE [nRefresh EXCEPT ![r] = Bump(@)]
                    /\ pc' = [pc EXCEPT ![r] = "refreshing"]
                    /\ UNCHANGED <<accessToken, refreshToken, location, outcome,
                                   Authorization, access>>
       ELSE /\ PassThrough(r, Rejected(Exchange(r), s))
            /\ UNCHANGED <<retry, nRefresh>>
    /\ UNCHANGED nDispatch

\* a handler whose try block awaits the replay (return await api(...)), so
\* that the catch block also sees the replay's error
ResponseError_AwaitedReplay(r, s) ==
    /\ pc[r] \in {"sent", "replayed"}
    /\ IF pc[r] = "replayed"
       THEN /\ CatchRefreshError(r, Rejected("replay", s))
            /\ UNCHANGED <<retry, nRefresh>>
       ELSE IF ShouldRecover(s, retry[r])
       THEN /\ retry' = MarkRetried(r)
            /\ IF MissingRefreshToken(refreshToken)
               THEN /\ CatchRefreshError(r, NoRefreshTokenError)
                    /\ UNCHANGED nRefresh
               ELSE /\ localRefresh' = [localRefresh EXCEPT ![r] = refreshToken]
                    /\ refreshAuthorization' =
                          [refreshAuthorization EXCEPT ![r] = RefreshCallHeader(accessToken)]
                    /\ nRefresh' = [nRefresh EXCEPT ![r] = Bump(@)]
                    /\ pc' = [pc EXCEPT ![r] = "refreshing"]
                    /\ UNCHANGED <<accessToken, refreshToken, location, outcome,
                                   Authorization, access>>
       ELSE /\ PassThrough(r, Rejected(Exchange(r), s))
            /\ UNCHANGED <<retry, nRefresh>>
    /\ UNCHANGED nDispatch

\* the endpoints of authApi.login, authApi.register and authApi.refresh
AuthEndpoints == {"/auth/login/", "/auth/register/", "/auth/refresh/"}

\* error.config.url of call r: call 1 is the register page's
\* authApi.register(data), the other calls go to resource endpoints
Endpoint(r) == IF r = 1 THEN "/auth/register/" ELSE "/workspaces/"

\* a handler that leaves the 401 of an auth endpoint to the caller
ResponseError_ExemptAuth(r, s) ==
    /\ pc[r] \in {"sent", "replayed"}
    /\ IF ShouldRecover(s, retry[r]) /\ Endpoint(r) \notin AuthEndpoints
       THEN /\ retry' = MarkRetried(r)
            /\ IF MissingRefreshToken(refreshToken)
               THEN /\ CatchRefreshError(r, NoRefreshTokenError)
                    /\ UNCHANGED nRefresh
               ELSE /\ localRefresh' = [localRefresh EXCEPT ![r] = refreshToken]
                    /\ refreshAuthorization' =
                          [refreshAuthorization EXCEPT ![r] = RefreshCallHeader(accessToken)]
                    /\ nRefresh' = [nRefresh EXCEPT ![r] = Bump(@)]
                    /\ pc' = [pc EXCEPT ![r] = "refreshing"]
                    /\ UNCHANGED <<accessToken, refreshToken, location, outcome,
                                   Authorization, access>>
       ELSE /\ PassThrough(r, Rejected(Exchange(r), s))
            /\ UNCHANGED <<retry, nRefresh>>
    /\ UNCHANGED nDispatch

\* async (error) => { ... } up to the await of the refresh call, or to its
\* return when there is nothing to await.
ResponseError(r, s) ==
    /\ pc[r] \in {"sent", "replayed"}
    /\ IF ShouldRecover(s, retry[r])
       THEN /\ retry' = MarkRetried(r)
            /\ IF MissingRefreshToken(refreshToken)
               THEN /\ CatchRefreshError(r, NoRefreshTokenError)
                    /\ UNCHANGED nRefresh
               ELSE /\ localRefresh' = [localRefresh EXCEPT ![r] = refreshToken]
                    /\ refreshAuthorization' =
                          [refreshAuthorization EXCEPT ![r] = RefreshCallHeader(accessToken)]
                    /\ nRefresh' = [nRefresh EXCEPT ![r] = Bump(@)]
                    /\ pc' = [pc EXCEPT ![r] = "refreshing"]
                    /\ UNCHANGED <<accessToken, refreshToken, location, outcome,
                                   Authorization, access>>
       ELSE /\ PassThrough(r, Rejected(Exchange(r), s))
            /\ UNCHANGED <<retry, nRefresh>>
    /\ UNCHANGED nDispatch

\* a continuation that replays without storing the new access token
RefreshResolved_NoStore(r, a) ==
    /\ pc[r] = "refreshing"
    /\ access' = [access EXCEPT ![r] = a]
    /\ Authorization' = [Authorization EXCEPT ![r] = RequestHook(a, accessToken)]
    /\ nDispatch' = [nDispatch EXCEPT ![r] = Bump(@)]
    /\ pc' = [pc EXCEPT ![r] = "replayed"]
    /\ UNCHANGED <<accessToken, refreshToken, location, retry, localRefresh, refreshAuthorization,
                   outcome, nRefresh>>

\* a continuation that keeps the token another call's refresh stored while
\* that call's replay is on the wire
RefreshResolved_FirstWins(r, a) ==
    /\ pc[r] = "refreshing"
    /\ access' = [access EXCEPT ![r] = a]
    /\ IF \E q \in Reqs \ {r} : pc[q] = "replayed"
       THEN UNCHANGED <<accessToken, refreshToken>>
       ELSE Store(setTokens(a, localRefresh[r]))
    /\ Authorization' = [Authorization EXCEPT ![r] = RequestHook(a, accessToken')]
    /\ nDispatch' = [nDispatch EXCEPT ![r] = Bump(@)]
    /\ pc' = [pc EXCEPT ![r] = "replayed"]
    /\ UNCHANGED <<location, retry, localRefresh, refreshAuthorization, outcome, nRefresh>>

\* a continuation that writes the header into a headers object which the
\* requests on the wire share
RefreshResolved_SharedHeaders(r, a) ==
    /\ pc[r] = "refreshing"
    /\ access' = [access EXCEPT ![r] = a]
    /\ Store(setTokens(a, localRefresh[r]))
    /\ Authorization' = [q \in Reqs |->
                            IF q = r \/ pc[q] \in {"sent", "replayed"}
                            THEN RequestHook(a, accessToken')
                            ELSE Authorization[q]]
    /\ nDispatch' = [nDispatch EXCEPT ![r] = Bump(@)]
    /\ pc' = [pc EXCEPT ![r] = "replayed"]
    /\ UNCHANGED <<location, retry, localRefresh, refreshAuthorization, outcome, nRefresh>>

\* a continuation that sends the replay through the request interceptor
\* before it stores the new token
RefreshResolved_ReplayBeforeStore(r, a) ==
    /\ pc[r] = "refreshing"
    /\ access' = [access EXCEPT ![r] = a]
    /\ Authorization' = [Authorization EXCEPT ![r] = RequestHook(a, accessToken)]
    /\ Store(setTokens(a, localRefresh[r]))
    /\ nDispatch' = [nDispatch EXCEPT ![r] = Bump(@)]
    /\ pc' = [pc EXCEPT ![r] = "replayed"]
    /\ UNCHANGED <<location, retry, localRefresh, refreshAuthorization, outcome, nRefresh>>

\* the refresh call resolved: lines 46-51, and the replay's pass through the
\* request interceptor on its way to the wire.  api(originalRequest) runs the
\* interceptor in a microtask of the same task, before any other response,
\* click or timer is handled, so nothing else writes the store in between.
RefreshResolved(r, a) ==
    /\ pc[r] = "refreshing"
    /\ access' = [access EXCEPT ![r] = a]
    /\ Store(setTokens(a, localRefresh[r]))
    /\ Authorization' = [Authorization EXCEPT ![r] = RequestHook(a, accessToken')]
    /\ nDispatch' = [nDispatch EXCEPT ![r] = Bump(@)]
    /\ pc' = [pc EXCEPT ![r] = "replayed"]
    /\ UNCHANGED <<location, retry, localRefresh, refreshAuthorization, outcome, nRefresh>>

\* the refresh call rejected: any non-2xx status or a transport error
RefreshRejected(r, s) ==
    /\ pc[r] = "refreshing"
    /\ CatchRefreshError(r, Rejected("refresh", s))
    /\ UNCHANGED <<retry, nRefresh, nDispatch>>

Next ==
    \/ \E a, f \in Tokens : Login(a, f) /\ UNCHANGED pageVars
    \/ Logout /\ UNCHANGED pageVars
    \/ \E r \in Reqs : Send(r) /\ UNCHANGED pageVars
    \/ \E r \in Reqs : ResponseSuccess(r) /\ UNCHANGED pageVars
    \/ \E r \in Reqs, s \in ErrorStatuses : ResponseError(r, s) /\ UNCHANGED pageVars
    \/ \E r \in Reqs, a \in Tokens : RefreshResolved(r, a) /\ UNCHANGED pageVars
    \/ \E r \in Reqs, s \in ErrorStatuses : RefreshRejected(r, s) /\ UNCHANGED pageVars

Spec == Init /\ [][Next]_vars

\* ---------------------------------------------------------------- steps
\* the request of call r goes onto the wire in this step (initial send or replay)
Dispatched(r) == pc'[r] \in {"sent", "replayed"} /\ pc'[r] # pc[r]
\* the handler of call r receives a 401 in this step
Got401(r) == ResponseError(r, Unauthorized)
SessionCleared == accessToken = NoToken /\ refreshToken = NoToken

\* ------------------------------------------------------------------ claims
\* C1: for every call, at most one refresh call is issued on its behalf and
\* its request is put on the wire at most twice (the initial send and at most
\* one replay), whatever the server answers and however calls interleave.
C1_AtMostOneRecovery ==
    \A r \in Reqs : nRefresh[r] <= 1 /\ nDispatch[r] <= 2

\* a call whose replay was answered 401 again, and that has settled
C1_Witness ==
    \E r \in Reqs : /\ pc[r] = "done"
                    /\ outcome[r] = Rejected("replay", Unauthorized)
                    /\ nRefresh[r] = 1 /\ nDispatch[r] = 2

\* C2: when the refresh call made for a 401'd, not yet retried request
\* succeeds, that is the call's only refresh call, the session's access token
\* becomes the token the refresh returned and the request is replayed once;
\* the caller, who has seen nothing so far, gets the replay's outcome, and a
\* 2xx replay resolves the promise with that response.
C2_RefreshAndReplay ==
    [][\A r \in Reqs :
         /\ (pc[r] = "refreshing" /\ pc'[r] = "replayed")
               => /\ nRefresh'[r] = 1
                  /\ access'[r] \in Tokens
                  /\ accessToken' = access'[r]
                  /\ nDispatch'[r] = 2
                  /\ outcome'[r] = Pending
         /\ (pc[r] = "replayed" /\ pc'[r] = "done")
               => /\ nRefresh'[r] = 1 /\ nDispatch'[r] = 2
                  /\ outcome[r] = Pending
                  /\ outcome'[r].src = "replay"
                  /\ (ResponseSuccess(r) => outcome'[r] = Resolved("replay", OkStatus))
      ]_vars

\* a call that was answered 401, refreshed, and resolved with its replay's 200
C2_Witness ==
    \E r \in Reqs : /\ outcome[r] = Resolved("replay", OkStatus)
                    /\ retry[r]
                    /\ nRefresh[r] = 1 /\ nDispatch[r] = 2

\* C3: when the refresh call fails, with any status or with no response, the
\* handler clears the session, sets the page to /login and rejects the caller
\* with the refresh call's error, not with the request's own 401.
C3_RefreshFailure ==
    [][\A r \in Reqs :
         (pc[r] = "refreshing" /\ pc'[r] = "done")
            => /\ accessToken' = NoToken /\ refreshToken' = NoToken
               /\ location' = "/login"
               /\ outcome'[r].kind = "rejected"
               /\ outcome'[r].src = "refresh"
               /\ \A s \in ErrorStatuses :
                     RefreshRejected(r, s) => outcome'[r].status = s
      ]_vars

\* a refresh call answered 401: logged out, at /login, rejected with that error
C3_Witness ==
    \E r \in Reqs : /\ outcome[r] = Rejected("refresh", Unauthorized)
                    /\ SessionCleared
                    /\ location = "/login"

\* C4: when a not yet retried request is answered 401 and the session holds
\* no refresh token, no refresh call goes out, the session is clear, the page
\* is /login and the caller is rejected with Error('No refresh token').
C4_NoRefreshToken ==
    [][\A r \in Reqs :
         (Got401(r) /\ ~retry[r] /\ refreshToken = NoToken)
            => /\ nRefresh'[r] = nRefresh[r]
               /\ pc'[r] = "done"
               /\ accessToken' = NoToken /\ refreshToken' = NoToken
               /\ location' = "/login"
               /\ outcome'[r] = NoRefreshTokenError
      ]_vars

\* a call rejected with the synthetic error, for which no refresh call was made
C4_Witness ==
    \E r \in Reqs : /\ outcome[r] = NoRefreshTokenError
                    /\ nRefresh[r] = 0 /\ nDispatch[r] = 1
                    /\ location = "/login"

\* C5: when a request already marked retried is answered 401, no refresh call
\* is made and the caller is rejected with that 401 error itself.
C5_Retried401PassesThrough ==
    [][\A r \in Reqs :
         (Got401(r) /\ retry[r])
            => /\ nRefresh' = nRefresh
               /\ pc'[r] = "done"
               /\ outcome'[r] = Rejected(Exchange(r), Unauthorized)
      ]_vars

\* a replay's 401 handed to the caller while another call is still in flight
C5_Witness ==
    \E r, q \in Reqs : /\ outcome[r] = Rejected("replay", Unauthorized)
                       /\ pc[q] \in {"sent", "refreshing", "replayed"}

\* C6 as stated: handling a 401 on an already retried request logs the user
\* out, so the session credentials are clear once it has been handled.
C6_Retried401ForcesLogout ==
    [][\A r \in Reqs :
         (Got401(r) /\ retry[r]) => SessionCleared'
      ]_vars

\* C6 as amended: handling a 401 on an already retried request leaves the
\* session credentials and the page as they were; the handler only rejects.
C6_Retried401LeavesSession ==
    [][\A r \in Reqs :
         (Got401(r) /\ retry[r])
            => UNCHANGED <<accessToken, refreshToken, location>>
      ]_vars

\* a second 401 has been handled and the user is still logged in, not at /login
C6_Witness ==
    \E r \in Reqs : /\ outcome[r] = Rejected("replay", Unauthorized)
                    /\ accessToken # NoToken /\ refreshToken # NoToken
                    /\ location # "/login"

\* C7: a session without credentials gets credentials only by an explicit
\* login or registration; the 401 recovery never populates a cleared session.
C7_OnlyLoginPopulates ==
    [][(SessionCleared /\ ~SessionCleared')
          => \E a, f \in Tokens : Login(a, f)
      ]_vars

\* C8: a request that goes onto the wire, as an initial send or as a replay,
\* while the session holds an access token T at the moment the request
\* interceptor runs, carries the Authorization header Bearer T.
C8_BearerAttached ==
    [][\A r \in Reqs :
         (Dispatched(r) /\ accessToken' # NoToken)
            => Authorization'[r] = accessToken'
      ]_vars

\* an initial send and a replay on the wire together, both with a bearer token
C8_Witness ==
    \E r, q \in Reqs : /\ pc[r] = "sent" /\ Authorization[r] \in Tokens
                       /\ pc[q] = "replayed" /\ Authorization[q] \in Tokens

C10_OtherErrorsPassThrough ==
    [][\A r \in Reqs, s \in ErrorStatuses \ {Unauthorized} :
         ResponseError(r, s)
            => /\ UNCHANGED <<nRefresh, retry, accessToken, refreshToken, location>>
               /\ pc'[r] = "done"
               /\ outcome'[r] = Rejected(Exchange(r), s)
      ]_vars

\* a transport error and a 500 handed to their callers, unmarked, logged in
C10_Witness ==
    \E r, q \in Reqs : /\ outcome[r] = Rejected("initial", NoResponse)
                       /\ outcome[q] = Rejected("initial", ServerError)
                       /\ ~retry[r] /\ ~retry[q]
                       /\ nRefresh[r] = 0 /\ nRefresh[q] = 0
                       /\ accessToken # NoToken /\ location = "/onboarding"

\* C11: a 2xx response is handed to the caller as it came and causes no
\* refresh call, no retried mark, no change of the session and no redirect; a
\* call whose first answer is 2xx settles after that single exchange.
C11_SuccessPassesThrough ==
    [][\A r \in Reqs :
         ResponseSuccess(r)
            => /\ UNCHANGED <<accessToken, refreshToken, location, nRefresh, retry>>
               /\ pc'[r] = "done"
               /\ (pc[r] = "sent"
                     => /\ outcome'[r] = Resolved("initial", OkStatus)
                        /\ nDispatch'[r] = 1 /\ nRefresh'[r] = 0)
               /\ (pc[r] = "replayed"
                     => outcome'[r] = Resolved("replay", OkStatus))
      ]_vars

\* a logged-in call resolved with its first answer, one exchange, no refresh
C11_Witness ==
    \E r \in Reqs : /\ outcome[r] = Resolved("initial", OkStatus)
                    /\ nDispatch[r] = 1 /\ nRefresh[r] = 0 /\ ~retry[r]
                    /\ accessToken # NoToken /\ refreshToken # NoToken
                    /\ location = "/onboarding"

\* C12: when the handler stores the refreshed access token, the session's
\* refresh token after the store is the session's refresh token before it,
\* whatever login, logout or other refresh ran while the call was awaited.
C12_RefreshTokenKept ==
    [][\A r \in Reqs :
         (pc[r] = "refreshing" /\ pc'[r] = "replayed")
            => refreshToken' = refreshToken
      ]_vars

\* C13: when the caller is rejected because the refresh call failed or the
\* refresh token was absent, the session is already clear and the page is
\* already /login at that moment.
C13_SideEffectsBeforeReject ==
    [][\A r \in Reqs :
         (/\ outcome[r] = Pending
          /\ outcome'[r].kind = "rejected"
          /\ outcome'[r].src \in {"refresh", "synthetic"})
            => SessionCleared' /\ location' = "/login"
      ]_vars

\* both kinds of terminal failure have been handed to their callers
C13_Witness ==
    \E r, q \in Reqs : /\ outcome[r].src = "refresh"
                       /\ outcome[q].src = "synthetic"
                       /\ SessionCleared /\ location = "/login"

\* C14: a failed refresh call, or an absent refresh token, settles the call
\* there and then: no refresh call and no dispatch is made in that step, and a
\* settled call never makes another refresh call or dispatch.
C14_TerminalNotRetried ==
    [][\A r \in Reqs :
         /\ ((\E s \in ErrorStatuses : RefreshRejected(r, s))
               \/ (Got401(r) /\ ~retry[r] /\ refreshToken = NoToken))
               => /\ pc'[r] = "done"
                  /\ nRefresh'[r] = nRefresh[r]
                  /\ nDispatch'[r] = nDispatch[r]
         /\ pc[r] = "done"
               => /\ pc'[r] = "done"
                  /\ outcome'[r] = outcome[r]
                  /\ nRefresh'[r] = nRefresh[r]
                  /\ nDispatch'[r] = nDispatch[r]
      ]_vars

\* a call whose refresh failed stays settled, one refresh call and one
\* dispatch, while the user has logged in again and another call is in flight
C14_Witness ==
    \E r, q \in Reqs : /\ outcome[r].src = "refresh"
                       /\ nRefresh[r] = 1 /\ nDispatch[r] = 1
                       /\ accessToken # NoToken
                       /\ pc[q] \in {"sent", "refreshing", "replayed"}

\* C15: every not yet retried request that is answered 401 while the session
\* holds a refresh token gets a refresh call of its own, whether or not
\* other calls' refresh calls are in flight; no other call's count moves.
C15_OneRefreshPerRequest ==
    [][\A r \in Reqs :
         (Got401(r) /\ ~retry[r] /\ refreshToken # NoToken)
            => /\ pc'[r] = "refreshing"
               /\ nRefresh'[r] = nRefresh[r] + 1
               /\ \A q \in Reqs \ {r} : nRefresh'[q] = nRefresh[q]
      ]_vars

\* every call has its own refresh call in flight at the same time
C15_Witness ==
    \A r \in Reqs : pc[r] = "refreshing" /\ nRefresh[r] = 1

\* C16: every refresh response that is handled overwrites the session's
\* access token with the token it returned, and the access token then stays
\* until a login, a logout, a forced logout or the next handled refresh
\* response: the refresh handled last wins.
C16_LastWriterWins ==
    [][/\ \A r \in Reqs :
            (pc[r] = "refreshing" /\ pc'[r] = "replayed")
               => accessToken' = access'[r]
       /\ accessToken' # accessToken
            => \/ \E a, f \in Tokens : Login(a, f)
               \/ Logout
               \/ \E r \in Reqs :
                     \/ pc[r] = "refreshing" /\ pc'[r] = "replayed"
                     \/ /\ pc[r] # "done" /\ pc'[r] = "done"
                        /\ outcome'[r].src \in {"refresh", "synthetic"}
      ]_vars

\* two refreshes returned different tokens; the session holds the second's
C16_Witness ==
    \E r, q \in Reqs : /\ pc[r] = "replayed" /\ pc[q] = "replayed"
                       /\ access[r] # access[q]
                       /\ accessToken = access[q]
                       /\ location = "/onboarding"

\* C17: a replay is on the wire with token T1 while another call's refresh
\* has overwritten the session's access token with T2 (C17_Witness); the
\* header of a replay on the wire is not touched by what is stored later.
C17_ReplayKeepsItsToken ==
    [][\A r \in Reqs :
         (pc[r] = "replayed" /\ pc'[r] = "replayed")
            => Authorization'[r] = Authorization[r]
      ]_vars

\* call r's replay carries T1, the session holds T2 stored for call q
C17_Witness ==
    \E r, q \in Reqs : /\ pc[r] = "replayed" /\ Authorization[r] \in Tokens
                       /\ accessToken \in Tokens
                       /\ accessToken # Authorization[r]
                       /\ q # r /\ pc[q] = "replayed"
                       /\ Authorization[q] = accessToken

\* C18: a replay on the wire carries the access token that the refresh call
\* made for the same call returned, whatever the session holds by now.
C18_ReplayCarriesOwnToken ==
    \A r \in Reqs :
        pc[r] = "replayed" => access[r] \in Tokens /\ Authorization[r] = access[r]

\* a replay on the wire with its refreshed token after the user logged out
C18_Witness ==
    \E r \in Reqs : /\ pc[r] = "replayed" /\ Authorization[r] = access[r]
                    /\ SessionCleared

\* C19: when the replay fails, with a second 401, another status or no
\* response, the caller is rejected with the replay's error and the handler
\* leaves the session, with the access token stored, and the page alone.
C19_ReplayErrorPassesThrough ==
    [][\A r \in Reqs, s \in ErrorStatuses :
         (pc[r] = "replayed" /\ ResponseError(r, s))
            => /\ outcome'[r] = Rejected("replay", s)
               /\ UNCHANGED <<accessToken, refreshToken, location, nRefresh>>
      ]_vars

\* a replay answered 500: caller rejected with it, session still holds tokens
C19_Witness ==
    \E r \in Reqs : /\ outcome[r] = Rejected("replay", ServerError)
                    /\ nRefresh[r] = 1 /\ nDispatch[r] = 2
                    /\ accessToken # NoToken /\ refreshToken # NoToken
                    /\ location = "/onboarding"

\* C20: the refresh call bypasses the client's interceptors: it goes out with
\* no Authorization header, also while the session holds an access token, and
\* its failure, a 401 included, settles the call without a refresh call.
C20_RefreshOutsidePipeline ==
    [][\A r \in Reqs :
         /\ pc'[r] = "refreshing" => refreshAuthorization'[r] = NoHeader
         /\ \A s \in ErrorStatuses :
               RefreshRejected(r, s)
                  => /\ nRefresh' = nRefresh
                     /\ pc'[r] = "done"
                     /\ outcome'[r] = Rejected("refresh", s)
      ]_vars

\* a refresh call in flight without a header while the session holds an access
\* token, after another call's refresh call was answered 401
C20_Witness ==
    \E r, q \in Reqs : /\ pc[r] = "refreshing"
                       /\ refreshAuthorization[r] = NoHeader
                       /\ accessToken # NoToken
                       /\ outcome[q] = Rejected("refresh", Unauthorized)
                       /\ nRefresh[q] = 1

\* whether a 401 answer to call b sets off a refresh call: lines 32 and 37
TriggersRefresh(b) ==
    ShouldRecover(Unauthorized, retry[b]) /\ ~MissingRefreshToken(refreshToken)

\* C21: the retried mark belongs to one request: a step that marks call a
\* leaves unchanged, for every other call b, whether a 401 on b sets off a
\* refresh call; and a call that goes out for the first time is unmarked,
\* also when an earlier call has been marked.
C21_RetryMarkScoped ==
    [][\A a \in Reqs :
         /\ (retry'[a] # retry[a])
               => \A b \in Reqs \ {a} : TriggersRefresh(b)' = TriggersRefresh(b)
         /\ Send(a) => ~retry'[a]
      ]_vars

\* a first send on the wire, unmarked, after another call was marked and
\* settled, with a refresh token in the session
C21_Witness ==
    \E a, b \in Reqs : /\ a # b
                       /\ retry[a] /\ pc[a] = "done"
                       /\ pc[b] = "sent" /\ ~retry[b]
                       /\ TriggersRefresh(b)

\* ---------------------------------------------------------------- fairness
NFair == 1         \* calls followed to their end under fairness

\* The calls whose progress is followed.  Another call acts on them only
\* through the session and the page, which Login and Logout change at will.
FairReqs == 1..NFair

\* the exchange of call r that is on the wire (its request, its replay or its
\* refresh call) returns, and the handler registered for it runs
Answered(r) ==
    \/ ResponseSuccess(r)
    \/ \E s \in ErrorStatuses : ResponseError(r, s)
    \/ \E a \in Tokens : RefreshResolved(r, a)
    \/ \E s \in ErrorStatuses : RefreshRejected(r, s)

FairNext ==
    \/ \E a, f \in Tokens : Login(a, f) /\ UNCHANGED pageVars
    \/ Logout /\ UNCHANGED pageVars
    \/ \E r \in FairReqs : Send(r) /\ UNCHANGED pageVars
    \/ \E r \in FairReqs : ResponseSuccess(r) /\ UNCHANGED pageVars
    \/ \E r \in FairReqs, s \in ErrorStatuses : ResponseError(r, s) /\ UNCHANGED pageVars
    \/ \E r \in FairReqs, a \in Tokens : RefreshResolved(r, a) /\ UNCHANGED pageVars
    \/ \E r \in FairReqs, s \in ErrorStatuses : RefreshRejected(r, s) /\ UNCHANGED pageVars

\* Every network exchange eventually returns a response or an error, and the
\* event loop then runs its handler.  Which answer comes is left open.
FairSpec == Init /\ [][FairNext]_vars /\ \A r \in FairReqs : WF_vars(Answered(r))

\* network exchanges made for call r: sends of its request and refresh calls
Exchanges(r) == nDispatch[r] + nRefresh[r]

\* C22: when every network exchange eventually returns, every call that went
\* out eventually settles, and no call ever takes more than three exchanges
\* (initial send, refresh call, replay), whatever the server answers.
C22_SettlesWithinThree ==
    /\ \A r \in FairReqs : (pc[r] = "sent") ~> (pc[r] = "done")
    /\ [](\A r \in Reqs : Exchanges(r) <= 3)

\* a call settled after three exchanges, the last one lost on the network
C22_Witness ==
    \E r \in FairReqs : /\ pc[r] = "done" /\ Exchanges(r) = 3
                        /\ outcome[r] = Rejected("replay", NoResponse)

\* C23: no endpoint is exempt from the 401 recovery: a first 401 on a call to
\* an auth endpoint marks the request and, with no refresh token in the
\* session, makes no refresh call, clears the session, sets the page to
\* /login and rejects the caller with Error('No refresh token') in place of
\* the server's 401; with a refresh token it starts a refresh call as for any
\* other request.
C23_AuthEndpointsNotExempt ==
    [][\A r \in Reqs :
         (Endpoint(r) \in AuthEndpoints /\ Got401(r) /\ ~retry[r])
            => /\ retry'[r]
               /\ IF refreshToken = NoToken
                  THEN /\ nRefresh'[r] = nRefresh[r]
                       /\ outcome'[r] = NoRefreshTokenError
                       /\ outcome'[r] # Rejected(Exchange(r), Unauthorized)
                       /\ SessionCleared'
                       /\ location' = "/login"
                  ELSE /\ pc'[r] = "refreshing"
                       /\ nRefresh'[r] = nRefresh[r] + 1
                       /\ outcome'[r] = Pending
      ]_vars

\* the register call, sent without any token, rejected with the synthetic
\* error: session clear, page /login, no refresh call made
C23_Witness ==
    \E r \in Reqs : /\ Endpoint(r) = "/auth/register/"
                    /\ outcome[r] = NoRefreshTokenError
                    /\ nRefresh[r] = 0
                    /\ SessionCleared
                    /\ location = "/login"

\* ------------------------------------------------------- DashboardLayout
\* The layout is mounted on /dashboard with whatever session the store holds.
\* Every call through the client is the auth check's authApi.me().
DashInit ==
    /\ accessToken \in TokenOrNone
    /\ refreshToken \in TokenOrNone
    /\ location = "/dashboard"
    /\ pc = [r \in Reqs |-> "idle"]
    /\ retry = [r \in Reqs |-> FALSE]
    /\ Authorization = [r \in Reqs |-> NoHeader]
    /\ localRefresh = [r \in Reqs |-> NoToken]
    /\ access = [r \in Reqs |-> NoToken]
    /\ refreshAuthorization = [r \in Reqs |-> NoHeader]
    /\ outcome = [r \in Reqs |-> Pending]
    /\ nRefresh = [r \in Reqs |-> 0]
    /\ nDispatch = [r \in Reqs |-> 0]
    /\ LayoutInit /\ WizardInit /\ StoreInit

\* an auth check that calls /auth/me/ whatever the session holds
NoAccessToken_Never(token) == FALSE

\* line 20: if (!accessToken)
NoAccessToken(token) == token = NoToken

\* lines 38-53: the spinner, or the sidebar, the header and the children
Rendered(token) == IF token = NoToken THEN "spinner" ELSE "protected"

\* useEffect(..., [accessToken, ...]): the effect runs after the first render
\* and after every render in which accessToken differs from its last run's
EffectDue == location = "/dashboard" /\ deps # accessToken

\* checkAuth without an access token: lines 20-23
CheckAuthNoToken ==
    /\ EffectDue
    /\ NoAccessToken(accessToken)
    /\ deps' = accessToken
    /\ location' = "/login"
    /\ UNCHANGED <<accessToken, refreshToken, callVars, user, loading, handled,
                   wizardVars, storeVars>>

\* checkAuth with an access token, up to `await authApi.me()`: line 26
CheckAuthCallMe(r) ==
    /\ EffectDue
    /\ ~NoAccessToken(accessToken)
    /\ deps' = accessToken
    /\ Send(r)
    /\ UNCHANGED <<user, loading, handled, wizardVars, storeVars>>

\* lines 27-28, after /auth/me/ resolved: setUser(response.data);
\* setLoading(false)
CheckAuthResolved(r) ==
    /\ pc[r] = "done" /\ ~handled[r]
    /\ outcome[r].kind = "resolved"
    /\ handled' = [handled EXCEPT ![r] = TRUE]
    /\ user' = Me
    /\ loading' = FALSE
    /\ UNCHANGED <<vars, deps, wizardVars, storeVars>>

\* a catch block that logs out only on an authentication failure
CheckAuthCatch_OnlyAuthFailure(r) ==
    /\ pc[r] = "done" /\ ~handled[r]
    /\ outcome[r].kind = "rejected"
    /\ handled' = [handled EXCEPT ![r] = TRUE]
    /\ IF outcome[r].status = Unauthorized \/ outcome[r].src \in {"refresh", "synthetic"}
       THEN Store(logout) /\ location' = "/login"
       ELSE UNCHANGED <<accessToken, refreshToken, location>>
    /\ UNCHANGED <<callVars, user, loading, deps, wizardVars, storeVars>>

\* lines 29-32, after authApi.me() rejected: logout(); router.push('/login')
CheckAuthCatch(r) ==
    /\ pc[r] = "done" /\ ~handled[r]
    /\ outcome[r].kind = "rejected"
    /\ handled' = [handled EXCEPT ![r] = TRUE]
    /\ Store(logout)
    /\ location' = "/login"
    /\ UNCHANGED <<callVars, user, loading, deps, wizardVars, storeVars>>

DashNext ==
    \/ CheckAuthNoToken
    \/ \E r \in Reqs : CheckAuthCallMe(r)
    \/ \E r \in Reqs : CheckAuthResolved(r)
    \/ \E r \in Reqs : CheckAuthCatch(r)
    \/ Logout /\ UNCHANGED pageVars
    \/ \E r \in Reqs : ResponseSuccess(r) /\ UNCHANGED pageVars
    \/ \E r \in Reqs, s \in ErrorStatuses : ResponseError(r, s) /\ UNCHANGED pageVars
    \/ \E r \in Reqs, a \in Tokens : RefreshResolved(r, a) /\ UNCHANGED pageVars
    \/ \E r \in Reqs, s \in ErrorStatuses : RefreshRejected(r, s) /\ UNCHANGED pageVars

DashSpec == DashInit /\ [][DashNext]_allVars

\* checkAuth resumes after its await for call r in this step
CheckAuthResumed(r) == handled'[r] /\ ~handled[r]

\* C24: when the auth check resumes after /auth/me/ rejected, with the error
\* of a refresh failure, a 401, another status or no response at all, the
\* session is cleared and the page is /login, and the user record and the
\* loading flag stay as they were; they are written only in a step in which
\* the auth check resumes after /auth/me/ resolved.
C24_AnyRejectionLogsOut ==
    [][/\ \A r \in Reqs :
            CheckAuthResumed(r)
               => IF outcome[r].kind = "rejected"
                  THEN /\ SessionCleared'
                       /\ location' = "/login"
                       /\ UNCHANGED <<user, loading>>
                  ELSE /\ outcome[r].kind = "resolved"
                       /\ user' = Me
                       /\ loading' = FALSE
       /\ (user' # user \/ loading' # loading)
             => \E r \in Reqs : CheckAuthResumed(r) /\ outcome[r].kind = "resolved"
      ]_allVars

\* an auth check that resumed after a 500: the client had left the session
\* alone and made no refresh call; now the session is clear, the page /login
C24_Witness ==
    \E r \in Reqs : /\ handled[r]
                    /\ outcome[r] = Rejected("initial", ServerError)
                    /\ nRefresh[r] = 0
                    /\ SessionCleared
                    /\ location = "/login"
                    /\ user = NoUser /\ loading

\* the auth check runs in this step
CheckAuthRan == deps' # deps

\* C25: the layout renders the sidebar, the header and the children only
\* while the session holds an access token; an auth check that finds none
\* sets the page to /login and sends nothing, and the layout renders the
\* spinner, before and after.
C25_ProtectedNeedsToken ==
    /\ [](Rendered(accessToken) = "protected" => accessToken \in Tokens)
    /\ [][(CheckAuthRan /\ accessToken = NoToken)
             => /\ location' = "/login"
                /\ UNCHANGED callVars
                /\ Rendered(accessToken) = "spinner"
                /\ Rendered(accessToken') = "spinner"
         ]_allVars

\* an auth check that ran after the session was cleared under a mounted
\* layout whose first check had called /auth/me/: page /login, spinner, no
\* second call
C25_Witness ==
    /\ accessToken = NoToken /\ deps = NoToken
    /\ location = "/login"
    /\ Rendered(accessToken) = "spinner"
    /\ \E r, q \in Reqs : /\ pc[r] = "sent" /\ nDispatch[r] = 1
                          /\ pc[q] = "idle"

\* --------------------------------------------------------- OnboardingPage
MaxCreated == 2    \* workspaces one account creates by repeating Deploy

ApiKeys == {NoKey, "sk-1"}         \* what the user types into #apiKey
BotTokens == {NoKey, "bot-1"}      \* what the user types into #telegramToken
WorkspacePage == "/dashboard/workspaces/id"
DeployCalls == {"create", "setupTelegram", "deploy"}

\* what the wizard's actions never touch
notWizard == <<accessToken, refreshToken, callVars, layoutVars, storeVars>>

\* the call c goes out / the call awaited settles with res
Requested(log, c) == Append(log, [call |-> c, result |-> "pending"])
Settled(log, res) == [log EXCEPT ![Len(log)].result = res]

\* a handleNext that saves whatever the input holds
ApiKeyMissing_Never(k) == FALSE

\* line 63: if (!apiKey)
ApiKeyMissing(k) == k = NoKey

\* line 373: disabled={currentStep === 0 || isLoading}
BackDisabled(step, busy) == step = 0 \/ busy

\* a handleDeploy that never sets up Telegram
NeedsTelegram_Never(selected, token) == FALSE

\* line 101: selectedChannels.includes('telegram') && telegramToken
NeedsTelegram(selected, token) == selected /\ token # NoKey

\* line 197: onChange of the API key input, rendered at step 0
TypeApiKey(k) ==
    /\ location = "/onboarding" /\ currentStep = 0
    /\ apiKey' = k
    /\ UNCHANGED <<location, user, currentStep, isLoading, telegramSelected,
                   telegramToken, handler, keyData, calls, savedKey, created,
                   notWizard>>

\* lines 275-281: a click on the Telegram channel card, rendered at step 2
ToggleTelegram ==
    /\ location = "/onboarding" /\ currentStep = 2
    /\ telegramSelected' = ~telegramSelected
    /\ UNCHANGED <<location, user, currentStep, isLoading, apiKey,
                   telegramToken, handler, keyData, calls, savedKey, created,
                   notWizard>>

\* line 322: onChange of the bot token input, rendered at step 2 while
\* Telegram is selected
TypeTelegramToken(t) ==
    /\ location = "/onboarding" /\ currentStep = 2 /\ telegramSelected
    /\ telegramToken' = t
    /\ UNCHANGED <<location, user, currentStep, isLoading, apiKey,
                   telegramSelected, handler, keyData, calls, savedKey, created,
                   notWizard>>

\* lines 370-374: the Back button
Back ==
    /\ location = "/onboarding"
    /\ ~BackDisabled(currentStep, isLoading)
    /\ currentStep' = currentStep - 1
    /\ UNCHANGED <<location, user, isLoading, apiKey, telegramSelected,
                   telegramToken, handler, keyData, calls, savedKey, created,
                   notWizard>>

\* the Next button (lines 379-380) at step 0 with an empty input: lines 61-66
NextWithoutKey ==
    /\ location = "/onboarding"
    /\ currentStep < 3 /\ ~isLoading
    /\ currentStep = 0 /\ ApiKeyMissing(apiKey)
    /\ UNCHANGED <<location, user, wizardVars, notWizard>>

\* the Next button at step 0, up to `await authApi.updateApiKeys(keyData)`
NextSaveKey ==
    /\ location = "/onboarding"
    /\ currentStep < 3 /\ ~isLoading
    /\ currentStep = 0 /\ ~ApiKeyMissing(apiKey)
    /\ isLoading' = TRUE
    /\ keyData' = apiKey
    /\ handler' = "updateApiKeys"
    /\ UNCHANGED <<location, user, currentStep, apiKey, telegramSelected,
                   telegramToken, calls, savedKey, created, notWizard>>

\* the Next button at steps 1 and 2: lines 81-87
NextStep ==
    /\ location = "/onboarding"
    /\ currentStep < 3 /\ ~isLoading
    /\ currentStep \in {1, 2}
    /\ currentStep' = currentStep + 1
    /\ UNCHANGED <<location, user, isLoading, apiKey, telegramSelected,
                   telegramToken, handler, keyData, calls, savedKey, created,
                   notWizard>>

\* updateApiKeys resolved: the server saved the key; on to `await authApi.me()`
UpdateApiKeysResolved ==
    /\ handler = "updateApiKeys"
    /\ savedKey' = keyData
    /\ handler' = "me"
    /\ UNCHANGED <<location, user, currentStep, isLoading, apiKey,
                   telegramSelected, telegramToken, keyData, calls, created,
                   notWizard>>

\* /auth/me/ resolved: setUser(userResponse.data); setCurrentStep(1); finally
MeResolved ==
    /\ handler = "me"
    /\ user' = Me
    /\ currentStep' = 1
    /\ isLoading' = FALSE
    /\ handler' = "idle"
    /\ keyData' = NoKey
    /\ UNCHANGED <<location, apiKey, telegramSelected, telegramToken, calls,
                   savedKey, created, notWizard>>

\* either await of handleNext rejected: lines 76-80, toast and finally
HandleNextCatch ==
    /\ handler \in {"updateApiKeys", "me"}
    /\ isLoading' = FALSE
    /\ handler' = "idle"
    /\ keyData' = NoKey
    /\ UNCHANGED <<location, user, currentStep, apiKey, telegramSelected,
                   telegramToken, calls, savedKey, created, notWizard>>

\* the Deploy button (lines 385-386), up to `await workspaceApi.create(...)`
DeployClick ==
    /\ location = "/onboarding"
    /\ ~(currentStep < 3) /\ ~isLoading
    /\ created < MaxCreated
    /\ isLoading' = TRUE
    /\ handler' = "create"
    /\ calls' = Requested(<<>>, "create")
    /\ UNCHANGED <<location, user, currentStep, apiKey, telegramSelected,
                   telegramToken, keyData, savedKey, created, notWizard>>

\* workspaceApi.create resolved: lines 98-106, up to the next await
CreateResolved ==
    /\ handler = "create"
    /\ created' = created + 1
    /\ handler' = IF NeedsTelegram(telegramSelected, telegramToken)
                  THEN "setupTelegram" ELSE "deploy"
    /\ calls' = Requested(Settled(calls, "ok"), handler')
    /\ UNCHANGED <<location, user, currentStep, isLoading, apiKey,
                   telegramSelected, telegramToken, keyData, savedKey, notWizard>>

\* channelApi.setupTelegram resolved: on to line 106
SetupTelegramResolved ==
    /\ handler = "setupTelegram"
    /\ handler' = "deploy"
    /\ calls' = Requested(Settled(calls, "ok"), "deploy")
    /\ UNCHANGED <<location, user, currentStep, isLoading, apiKey,
                   telegramSelected, telegramToken, keyData, savedKey, created,
                   notWizard>>

\* workspaceApi.deploy resolved: lines 108-113 and finally
DeployResolved ==
    /\ handler = "deploy"
    /\ calls' = Settled(calls, "ok")
    /\ location' = WorkspacePage
    /\ isLoading' = FALSE
    /\ handler' = "idle"
    /\ UNCHANGED <<user, currentStep, apiKey, telegramSelected, telegramToken,
                   keyData, savedKey, created, notWizard>>

\* any await of handleDeploy rejected: lines 114-122, toast and finally
HandleDeployCatch ==
    /\ handler \in DeployCalls
    /\ calls' = Settled(calls, "failed")
    /\ isLoading' = FALSE
    /\ handler' = "idle"
    /\ UNCHANGED <<location, user, currentStep, apiKey, telegramSelected,
                   telegramToken, keyData, savedKey, created, notWizard>>

\* line 398: "Skip for now and go to dashboard"
Skip ==
    /\ location = "/onboarding"
    /\ location' = "/dashboard"
    /\ UNCHANGED <<user, wizardVars, notWizard>>

\* The register page logs the new account in and opens the wizard.  The
\* wizard's calls are answered by the client as resolved or rejected.
WizardNext ==
    \/ \E a, f \in Tokens : location = "/register" /\ Login(a, f) /\ UNCHANGED pageVars
    \/ \E k \in ApiKeys : TypeApiKey(k)
    \/ ToggleTelegram
    \/ \E t \in BotTokens : TypeTelegramToken(t)
    \/ Back
    \/ NextWithoutKey
    \/ NextSaveKey
    \/ NextStep
    \/ UpdateApiKeysResolved
    \/ MeResolved
    \/ HandleNextCatch
    \/ DeployClick
    \/ CreateResolved
    \/ SetupTelegramResolved
    \/ DeployResolved
    \/ HandleDeployCatch
    \/ Skip

WizardSpec == Init /\ [][WizardNext]_allVars

\* the calls a run of handleDeploy is to make, in order: the Telegram setup
\* belongs to them when Telegram is selected and a bot token is typed in
DeployOrder ==
    IF telegramSelected /\ telegramToken # NoKey
    THEN <<"create", "setupTelegram", "deploy">>
    ELSE <<"create", "deploy">>

\* C26: while handleDeploy runs, its calls so far are the first calls of
\* create, setupTelegram (when Telegram is selected with a token), deploy, in
\* that order, each made after the one before it succeeded; a failing call is
\* the run's last, the run navigates nowhere, the workspaces created stay,
\* and isLoading is false when the run ends; the run navigates to the
\* workspace only when deploy succeeded.
C26_DeployOrdered ==
    /\ [](handler \in DeployCalls
            => /\ Len(calls) \in 1..Len(DeployOrder)
               /\ \A i \in 1..Len(calls) : calls[i].call = DeployOrder[i]
               /\ \A i \in 1..(Len(calls) - 1) : calls[i].result = "ok"
               /\ calls[Len(calls)] = [call |-> handler, result |-> "pending"]
               /\ isLoading)
    /\ [][/\ (handler \in DeployCalls /\ handler' = "idle")
                => /\ ~isLoading'
                   /\ Len(calls') = Len(calls)
                   /\ created' = created
                   /\ IF calls'[Len(calls)].result = "failed"
                      THEN location' = location
                      ELSE /\ handler = "deploy"
                           /\ calls'[Len(calls)].result = "ok"
                           /\ location' = WorkspacePage
          /\ (handler \in DeployCalls /\ handler' # handler)
                => calls'[Len(calls)].result \in {"ok", "failed"}
          /\ (location' = WorkspacePage /\ location # WorkspacePage)
                => handler = "deploy" /\ calls'[Len(calls)].result = "ok"
          /\ created' >= created
         ]_allVars

\* a run that created the workspace and failed at the Telegram setup: no
\* deploy call, still on the wizard, the workspace exists, not loading
C26_Witness ==
    /\ handler = "idle" /\ ~isLoading
    /\ calls = <<[call |-> "create", result |-> "ok"],
                 [call |-> "setupTelegram", result |-> "failed"]>>
    /\ created = 1
    /\ location = "/onboarding"

\* C27: currentStep stays within 0..3 whatever is clicked; while it is 1 or
\* more, the server has saved a non-empty API key and /auth/me/ has been
\* fetched; it leaves 0 only in the step in which the /auth/me/ fetch that
\* follows a successful save resolves, and a failed save leaves it at 0.
C27_StepsNeedSavedKey ==
    /\ [](currentStep \in 0..3)
    /\ [](currentStep >= 1 => savedKey # NoKey /\ user = Me)
    /\ [][/\ (currentStep = 0 /\ currentStep' # 0)
                => /\ handler = "me" /\ handler' = "idle"
                   /\ savedKey # NoKey /\ savedKey = keyData
                   /\ currentStep' = 1
          /\ (handler = "updateApiKeys" /\ handler' = "idle")
                => currentStep = 0 /\ currentStep' = 0
         ]_allVars

\* step 2 with a saved key and a fetched user, reached with Back from step 3
\* after a run of handleDeploy there
C27_Witness ==
    /\ currentStep = 2
    /\ savedKey # NoKey /\ user = Me
    /\ handler = "idle" /\ ~isLoading
    /\ calls # <<>>

\* ------------------------------------------------------- useWorkspaceStore
NIds == 2          \* distinct workspace ids
MaxLen == 2        \* workspaces the list grows to
MaxFetched == 1    \* workspaces in a list handed to setWorkspaces

Ids == 1..NIds
Names == {"a", "b"}                \* the fields of a Workspace other than id
Workspace == [id : Ids, name : Names]
WorkspaceOrNull == Workspace \cup {Null}
Lists(n) == UNION {[1..k -> Workspace] : k \in 0..n}
\* Partial<Workspace>: any of the fields, id included
Updates == [id : Ids, name : Names] \cup [id : Ids] \cup [name : Names] \cup {<<>>}

notStore == <<vars, user, layoutVars, wizardVars>>

\* { ...w, ...updates }
Merge(w, updates) ==
    [f \in DOMAIN w |-> IF f \in DOMAIN updates THEN updates[f] ELSE w[f]]

\* w?.id === id
HasId(w, id) == w # Null /\ w.id = id

\* an update that forgets the current workspace
updateWorkspace_ListOnly(id, updates) ==
    [workspaces |-> [i \in 1..Len(workspaces) |->
                        IF workspaces[i].id = id
                        THEN Merge(workspaces[i], updates)
                        ELSE workspaces[i]],
     currentWorkspace |-> currentWorkspace]

\* lines 70-79
updateWorkspace(id, updates) ==
    [workspaces |-> [i \in 1..Len(workspaces) |->
                        IF workspaces[i].id = id
                        THEN Merge(workspaces[i], updates)
                        ELSE workspaces[i]],
     currentWorkspace |-> IF HasId(currentWorkspace, id)
                          THEN Merge(currentWorkspace, updates)
                          ELSE currentWorkspace]

\* a removal that keeps showing the removed workspace as the current one
removeWorkspace_KeepsCurrent(id) ==
    [workspaces |-> SelectSeq(workspaces, LAMBDA w : w.id # id),
     currentWorkspace |-> currentWorkspace]

\* lines 81-86
removeWorkspace(id) ==
    [workspaces |-> SelectSeq(workspaces, LAMBDA w : w.id # id),
     currentWorkspace |-> IF HasId(currentWorkspace, id)
                          THEN Null
                          ELSE currentWorkspace]

\* set(...) of the store, called by operation op
SetStore(s, op) ==
    /\ workspaces' = s.workspaces
    /\ currentWorkspace' = s.currentWorkspace
    /\ lastOp' = op
    /\ UNCHANGED notStore

\* line 65
SetWorkspaces(list) ==
    SetStore([workspaces |-> list, currentWorkspace |-> currentWorkspace],
             "setWorkspaces")

\* lines 67-68
AddWorkspace(w) ==
    /\ Len(workspaces) < MaxLen
    /\ SetStore([workspaces |-> Append(workspaces, w),
                 currentWorkspace |-> currentWorkspace], "addWorkspace")

UpdateWorkspace(id, updates) == SetStore(updateWorkspace(id, updates), "updateWorkspace")

RemoveWorkspace(id) == SetStore(removeWorkspace(id), "removeWorkspace")

\* line 88
SetCurrentWorkspace(w) ==
    SetStore([workspaces |-> workspaces, currentWorkspace |-> w],
             "setCurrentWorkspace")

StoreNext ==
    \/ \E list \in Lists(MaxFetched) : SetWorkspaces(list)
    \/ \E w \in Workspace : AddWorkspace(w)
    \/ \E id \in Ids, updates \in Updates : UpdateWorkspace(id, updates)
    \/ \E id \in Ids : RemoveWorkspace(id)
    \/ \E w \in WorkspaceOrNull : SetCurrentWorkspace(w)

StoreSpec == Init /\ [][StoreNext]_allVars

\* w2 is w with the fields of updates written over it
Applied(w, w2, updates) ==
    /\ DOMAIN w2 = DOMAIN w
    /\ \A f \in DOMAIN w : w2[f] = IF f \in DOMAIN updates THEN updates[f] ELSE w[f]

\* C28: updateWorkspace(id, updates) keeps the list's length; at every
\* position an entry with that id becomes the entry with the fields of
\* updates written over it and any other entry stays as it was; the current
\* workspace is handled the same way, null staying null; and when neither an
\* entry nor the current workspace has that id, no workspace data changes.
C28_UpdateWorkspaceFrame ==
    [][\A id \in Ids, updates \in Updates :
         (lastOp' = "updateWorkspace" /\ UpdateWorkspace(id, updates))
            => /\ Len(workspaces') = Len(workspaces)
               /\ \A i \in 1..Len(workspaces) :
                     IF workspaces[i].id = id
                     THEN Applied(workspaces[i], workspaces'[i], updates)
                     ELSE workspaces'[i] = workspaces[i]
               /\ IF currentWorkspace = Null
                  THEN currentWorkspace' = Null
                  ELSE IF currentWorkspace.id = id
                  THEN /\ currentWorkspace' # Null
                       /\ Applied(currentWorkspace, currentWorkspace', updates)
                  ELSE currentWorkspace' = currentWorkspace
               /\ ((\A i \in 1..Len(workspaces) : workspaces[i].id # id)
                     /\ (currentWorkspace = Null \/ currentWorkspace.id # id))
                    => UNCHANGED <<workspaces, currentWorkspace>>
      ]_allVars

\* after an update: the entry with id 1 and the current workspace carry the
\* updated name, the entry with id 2 behind it keeps its own
C28_Witness ==
    /\ lastOp = "updateWorkspace"
    /\ workspaces = <<[id |-> 1, name |-> "b"], [id |-> 2, name |-> "a"]>>
    /\ currentWorkspace = [id |-> 1, name |-> "b"]

\* the positions of the list whose entry does not have the id
KeptPositions(id) == {i \in 1..Len(workspaces) : workspaces[i].id # id}

====
